---- MODULE Spec2Model ----
(***************************************************************************)
(* The getswaps command of solana-multitool, in its two versions:          *)
(*   "cmd_getswaps"  go-src/cmd/getswaps/main.go                           *)
(*   "getswaps"      src/go/getswaps.go                                    *)
(* One run of main() is modelled statement by statement.  The collaborators*)
(* (godotenv, the RPC client, the solanaswap-go parser, encoding/json) are *)
(* outside the repository; each call returns either a value or an error,   *)
(* chosen nondeterministically.                                            *)
(***************************************************************************)
EXTENDS Integers, Sequences, FiniteSets, TLC

\* Number of distinct well-formed transaction signatures a run may be given.
MaxSig == 2

Programs == {"cmd_getswaps", "getswaps"}

EnvVars == {"QUICKNODE_URL", "SOLANA_RPC_URL"}

\* A variable that is absent from the environment (or from the .env file).
Unset == "<unset>"

\* Values an environment variable may hold when it is present.
URLs == {"", "https://rpc.example", "https://quicknode.example"}

EnvValues == URLs \cup {Unset}

\* os.Args[1] as typed by the user: 0 is a string that is not a base58
\* signature, 1..MaxSig are well-formed signatures.
BadSig == 0
SigStrings == 0..MaxSig

ArgLists == {<<"getswaps">>} \cup {<<"getswaps", s>> : s \in SigStrings}

None == [none |-> TRUE]

\* os.Getenv: the value of the variable, "" when it is not present.
Getenv(env, key) == IF env[key] = Unset THEN "" ELSE env[key]

\* godotenv.Load: every key of the file that is not already present in the
\* environment is set; keys already present are left alone.  A missing file
\* is an error, which main discards; it sets nothing, like a file in which
\* every key is Unset.
Load(env, file) ==
    [k \in EnvVars |-> IF env[k] = Unset THEN file[k] ELSE env[k]]

EnvVarRead_cmd == "SOLANA_RPC_URL"
EnvVarRead_old == "QUICKNODE_URL"

\* The variable main reads the endpoint from.
EnvVarRead(p) == IF p = "cmd_getswaps" THEN EnvVarRead_cmd ELSE EnvVarRead_old

MsgNotSet == "QUICKNODE_URL not set in environment or .env file"
MsgFetch == "Error fetching transaction"
MsgParserInit == "Error initializing transaction parser"
MsgParse == "Error parsing transaction"
MsgSwap == "Error processing swap data"

\* log.Fatal / log.Fatalf: write the message, then os.Exit(1).
FatalStatus == 1
\* An unrecovered panic ends a Go program with status 2.
PanicStatus == 2
Running == -1

\* json.MarshalIndent of a map[string]any: an object whose members are the
\* map's entries in sorted key order.
MarshalIndentMap(swap, txd) ==
    [kind |-> "object",
     members |-> << <<"swap_data", swap>>, <<"transaction_data", txd>> >>]

\* json.MarshalIndent of a single value.
MarshalIndent(v) == [kind |-> "value", value |-> v]

VARIABLES prog, osEnv, dotenv, args, pc, rpcURL, rpcClient, txSig, tx,
          parser, transactionData, swapData, calls, stdout, stderr,
          exitStatus

vars == <<prog, osEnv, dotenv, args, pc, rpcURL, rpcClient, txSig, tx,
          parser, transactionData, swapData, calls, stdout, stderr,
          exitStatus>>

locals == <<rpcURL, rpcClient, txSig, tx, parser, transactionData, swapData>>
inputs == <<prog, dotenv, args>>

Init ==
    /\ prog \in Programs
    /\ osEnv \in [EnvVars -> EnvValues]
    /\ dotenv \in [EnvVars -> EnvValues]
    /\ args \in ArgLists
    /\ pc = "load_env"
    /\ rpcURL = None
    /\ rpcClient = None
    /\ txSig = None
    /\ tx = None
    /\ parser = None
    /\ transactionData = None
    /\ swapData = None
    /\ calls = <<>>
    /\ stdout = <<>>
    /\ stderr = <<>>
    /\ exitStatus = Running

\* log.Fatal(msg)
Fatal(msg) ==
    /\ stderr' = Append(stderr, msg)
    /\ exitStatus' = FatalStatus
    /\ pc' = "exited"

\* panic(...)
Panic ==
    /\ stderr' = Append(stderr, "panic")
    /\ exitStatus' = PanicStatus
    /\ pc' = "exited"

\* _ = godotenv.Load(path)
LoadEnv ==
    /\ pc = "load_env"
    /\ osEnv' = Load(osEnv, dotenv)
    /\ pc' = "get_url"
    /\ UNCHANGED <<inputs, locals, calls, stdout, stderr, exitStatus>>

\* url := os.Getenv(...); if url == "" { log.Fatal(...) }
GetURL ==
    /\ pc = "get_url"
    /\ rpcURL' = Getenv(osEnv, EnvVarRead(prog))
    /\ IF rpcURL' = ""
         THEN Fatal(MsgNotSet)
         ELSE /\ pc' = "new_client"
              /\ UNCHANGED <<stderr, exitStatus>>
    /\ UNCHANGED <<inputs, osEnv, rpcClient, txSig, tx, parser,
                   transactionData, swapData, calls, stdout>>

\* rpcClient := rpc.New(url)
NewClient ==
    /\ pc = "new_client"
    /\ rpcClient' = [endpoint |-> rpcURL]
    /\ pc' = "parse_sig"
    /\ UNCHANGED <<inputs, osEnv, rpcURL, txSig, tx, parser, transactionData,
                   swapData, calls, stdout, stderr, exitStatus>>

\* sig := os.Args[1]; txSig := solana.MustSignatureFromBase58(sig)
\* Indexing past the end of os.Args panics, and so does a malformed signature.
ParseSig ==
    /\ pc = "parse_sig"
    /\ IF Len(args) < 2 \/ args[2] = BadSig
         THEN /\ Panic
              /\ UNCHANGED txSig
         ELSE /\ txSig' = args[2]
              /\ pc' = "get_tx"
              /\ UNCHANGED <<stderr, exitStatus>>
    /\ UNCHANGED <<inputs, osEnv, rpcURL, rpcClient, tx, parser,
                   transactionData, swapData, calls, stdout>>

\* The same call with the error check left out: main goes on with the
\* transaction it did not get.
GetTransaction_ignoresError ==
    /\ pc = "get_tx"
    /\ \E ok \in BOOLEAN :
         calls' = Append(calls, [name |-> "GetTransaction", ok |-> ok,
                                 endpoint |-> rpcClient.endpoint])
    /\ tx' = [sig |-> txSig]
    /\ pc' = "new_parser"
    /\ UNCHANGED <<inputs, osEnv, rpcURL, rpcClient, txSig, parser,
                   transactionData, swapData, stdout, stderr, exitStatus>>

\* tx, err := rpcClient.GetTransaction(...); if err != nil { log.Fatalf }
GetTransaction ==
    /\ pc = "get_tx"
    /\ \E ok \in BOOLEAN :
         /\ calls' = Append(calls, [name |-> "GetTransaction", ok |-> ok,
                                    endpoint |-> rpcClient.endpoint])
         /\ IF ok
              THEN /\ tx' = [sig |-> txSig]
                   /\ pc' = "new_parser"
                   /\ UNCHANGED <<stderr, exitStatus>>
              ELSE /\ Fatal(MsgFetch)
                   /\ UNCHANGED tx
    /\ UNCHANGED <<inputs, osEnv, rpcURL, rpcClient, txSig, parser,
                   transactionData, swapData, stdout>>

\* parser, err := solanaswapgo.NewTransactionParser(tx); if err != nil { ... }
NewTransactionParser ==
    /\ pc = "new_parser"
    /\ \E ok \in BOOLEAN :
         /\ calls' = Append(calls, [name |-> "NewTransactionParser", ok |-> ok,
                                    endpoint |-> ""])
         /\ IF ok
              THEN /\ parser' = [tx |-> tx]
                   /\ pc' = "parse_tx"
                   /\ UNCHANGED <<stderr, exitStatus>>
              ELSE /\ Fatal(MsgParserInit)
                   /\ UNCHANGED parser
    /\ UNCHANGED <<inputs, osEnv, rpcURL, rpcClient, txSig, tx,
                   transactionData, swapData, stdout>>

\* transactionData, err := parser.ParseTransaction(); if err != nil { ... }
\* In src/go/getswaps.go the parsed data is printed next; in
\* cmd/getswaps/main.go nothing is printed here.
ParseTransaction ==
    /\ pc = "parse_tx"
    /\ \E ok \in BOOLEAN :
         /\ calls' = Append(calls, [name |-> "ParseTransaction", ok |-> ok,
                                    endpoint |-> ""])
         /\ IF ok
              THEN /\ transactionData' = [parsedFrom |-> parser.tx.sig]
                   /\ pc' = IF prog = "getswaps" THEN "print_tx"
                                                 ELSE "process_swap"
                   /\ UNCHANGED <<stderr, exitStatus>>
              ELSE /\ Fatal(MsgParse)
                   /\ UNCHANGED transactionData
    /\ UNCHANGED <<inputs, osEnv, rpcURL, rpcClient, txSig, tx, parser,
                   swapData, stdout>>

\* src/go/getswaps.go only:
\* marshalledData, _ := json.MarshalIndent(transactionData, "", "  ")
\* fmt.Println(string(marshalledData))
PrintTransactionData ==
    /\ pc = "print_tx"
    /\ stdout' = Append(stdout, MarshalIndent(transactionData))
    /\ pc' = "process_swap"
    /\ UNCHANGED <<inputs, osEnv, locals, calls, stderr, exitStatus>>

\* The same call with the error check left out: main goes on to print.
ProcessSwapData_ignoresError ==
    /\ pc = "process_swap"
    /\ \E ok \in BOOLEAN :
         calls' = Append(calls, [name |-> "ProcessSwapData", ok |-> ok,
                                 endpoint |-> ""])
    /\ swapData' = [swapOf |-> transactionData.parsedFrom]
    /\ pc' = IF prog = "getswaps" THEN "print_swap" ELSE "print_combined"
    /\ UNCHANGED <<inputs, osEnv, rpcURL, rpcClient, txSig, tx, parser,
                   transactionData, stdout, stderr, exitStatus>>

\* swapData, err := parser.ProcessSwapData(transactionData); if err != nil {..}
ProcessSwapData ==
    /\ pc = "process_swap"
    /\ \E ok \in BOOLEAN :
         /\ calls' = Append(calls, [name |-> "ProcessSwapData", ok |-> ok,
                                    endpoint |-> ""])
         /\ IF ok
              THEN /\ swapData' = [swapOf |-> transactionData.parsedFrom]
                   /\ pc' = IF prog = "getswaps" THEN "print_swap"
                                                 ELSE "print_combined"
                   /\ UNCHANGED <<stderr, exitStatus>>
              ELSE /\ Fatal(MsgSwap)
                   /\ UNCHANGED swapData
    /\ UNCHANGED <<inputs, osEnv, rpcURL, rpcClient, txSig, tx, parser,
                   transactionData, stdout>>

\* src/go/getswaps.go only:
\* marshalledSwapData, _ := json.MarshalIndent(swapData, "", "  ")
\* fmt.Println(string(marshalledSwapData))
PrintSwapData ==
    /\ pc = "print_swap"
    /\ stdout' = Append(stdout, MarshalIndent(swapData))
    /\ pc' = "return"
    /\ UNCHANGED <<inputs, osEnv, locals, calls, stderr, exitStatus>>

\* cmd/getswaps/main.go only:
\* combined := map[string]any{"swap_data": ..., "transaction_data": ...}
\* marshalledCombined, _ := json.MarshalIndent(combined, "", "  ")
\* fmt.Println(string(marshalledCombined))
PrintCombined ==
    /\ pc = "print_combined"
    /\ stdout' = Append(stdout, MarshalIndentMap(swapData, transactionData))
    /\ pc' = "return"
    /\ UNCHANGED <<inputs, osEnv, locals, calls, stderr, exitStatus>>

\* main returns: the process ends with status 0.
Return ==
    /\ pc = "return"
    /\ exitStatus' = 0
    /\ pc' = "exited"
    /\ UNCHANGED <<inputs, osEnv, locals, calls, stdout, stderr>>

Next ==
    \/ LoadEnv
    \/ GetURL
    \/ NewClient
    \/ ParseSig
    \/ GetTransaction
    \/ NewTransactionParser
    \/ ParseTransaction
    \/ PrintTransactionData
    \/ ProcessSwapData
    \/ PrintSwapData
    \/ PrintCombined
    \/ Return

Spec == Init /\ [][Next]_vars

----
\* Helpers for stating the properties.

StepOrder == <<"GetTransaction", "NewTransactionParser", "ParseTransaction",
               "ProcessSwapData">>

Exited == pc = "exited"

Failed(name) == \E i \in 1..Len(calls) : calls[i].name = name /\ ~calls[i].ok
AllSucceeded ==
    /\ Len(calls) = Len(StepOrder)
    /\ \A i \in 1..Len(calls) : calls[i].name = StepOrder[i] /\ calls[i].ok
Logged(msg) == \E i \in 1..Len(stderr) : stderr[i] = msg

----
\* C8: Exit status of the getswaps command.  A run that has ended has status
\* zero exactly when the endpoint was configured and GetTransaction,
\* NewTransactionParser, ParseTransaction and ProcessSwapData all ran and
\* succeeded; a failure of configuration or of any of the four steps ends the
\* run with a nonzero status and a fatal message on the log.
C8_ExitStatus ==
    Exited =>
      /\ (rpcURL = "" \/ \E i \in 1..Len(calls) : ~calls[i].ok)
            => (exitStatus # 0 /\ stderr # <<>>)
      /\ (rpcURL # "" /\ AllSucceeded) => exitStatus = 0
      /\ exitStatus = 0 => (rpcURL # "" /\ AllSucceeded /\ stderr = <<>>)

\* A run in which swap processing failed has ended with the fatal status.
C8_Witness ==
    /\ Exited
    /\ Failed("ProcessSwapData")
    /\ exitStatus = FatalStatus
    /\ Logged(MsgSwap)

\* C9: RPC endpoint configuration.  Once the endpoint has been read, the
\* message "QUICKNODE_URL not set in environment or .env file" has been logged
\* exactly when QUICKNODE_URL is unset or empty; in that case no RPC client
\* exists and no call was made, and otherwise the client's endpoint is the
\* value of QUICKNODE_URL.
C9_QuickNodeURL ==
    pc \notin {"load_env", "get_url"} =>
      /\ Logged(MsgNotSet) <=> Getenv(osEnv, "QUICKNODE_URL") = ""
      /\ Logged(MsgNotSet) => (rpcClient = None /\ calls = <<>>)
      /\ rpcClient # None
            => rpcClient.endpoint = Getenv(osEnv, "QUICKNODE_URL")

====
